---- MODULE Spec2Model ----
(***************************************************************************)
(* Good News Network: the Express route handlers of the repository over    *)
(* the relational store (users, submissions, replies, subreactions) and    *)
(* the per-client session.  The repository holds three listings of the     *)
(* application:                                                            *)
(*   L1  src/index.js lines 1-577        (sentiment filter, breakdowns)    *)
(*   L2  src/index.js lines 579-1043     (no filter, plain counts)         *)
(*   L3  src/unnamed/part_000            (search filters, deleteReply)     *)
(* The variable listing says which one is deployed; it never changes.      *)
(***************************************************************************)
EXTENDS Integers, Sequences, FiniteSets, TLC

VARIABLES listing, users, submissions, replies, subreactions,
          nextUserId, nextSubId, nextReplyId, clock,
          session, pending, last

vars == <<listing, users, submissions, replies, subreactions,
          nextUserId, nextSubId, nextReplyId, clock,
          session, pending, last>>

tables == <<users, submissions, replies, subreactions>>

-----------------------------------------------------------------------------
(* Bounds of the model *)

MaxSubs == 2
MaxReplies == 1
MaxUsers == 4

(* Input alphabets *)

Listings == {"L1", "L2", "L3"}
Clients == {"c1", "c2"}
Texts == {"", " ", "good", "meh", "bad"}
ReactionIds == {1, 2}
Emails == {"", "a@x", "n@x", "q@x"}
Passwords == {"", "pw", "zz"}
FirstNames == {"", "Ann"}
LastNames == {"Lee"}
Referrers == {"", "/post/1"}
Salts == {"s1"}
QueryTypes == {"", "content", "user", "reaction", "date"}
Queries == {"", " ", "oo", "E", "%", "g_", "zz"}
QueryReactions == {"", "1", "2", "0", "x"}

-----------------------------------------------------------------------------
(* JavaScript objects used as maps: a function with a growing domain *)

EmptyObj == <<>>

Put(obj, k, v) == [x \in (DOMAIN obj) \cup {k} |-> IF x = k THEN v ELSE obj[x]]

GetOr(obj, k, dflt) == IF k \in DOMAIN obj THEN obj[k] ELSE dflt

-----------------------------------------------------------------------------
(* The sentiment analyzer and String.prototype.trim on the text alphabet *)

trim(t) == IF t = " " THEN "" ELSE t

analyze(t) ==
    CASE t = "good" -> 3
      [] t = "bad" -> 0 - 3
      [] OTHER -> 0

IsEmptyText_NoTrim(t) == t = ""

(* !text || text.trim().length === 0 *)
IsEmptyText(t) == t = "" \/ trim(t) = ""

(* pgcrypto crypt(): the digest depends on the password and on the salt, and
   the hash carries its salt, so crypt(pw, hash) re-hashes with that salt *)
crypt(pw, salt) == [salt |-> salt, digest |-> <<salt, pw>>]

-----------------------------------------------------------------------------
(* Responses.  resps of a request is the sequence of responses its handler
   attempted; the client receives the first one *)

Render(view, msg) == [kind |-> "render", status |-> 200, to |-> view, id |-> 0, msg |-> msg]

Redirect(target, id) == [kind |-> "redirect", status |-> 302, to |-> target, id |-> id, msg |-> ""]

Send(status, body) == [kind |-> "send", status |-> status, to |-> "", id |-> 0, msg |-> body]

Json(status, body) == [kind |-> "json", status |-> status, to |-> "", id |-> 0, msg |-> body]

(* res.redirect(req.get("Referrer") || "/feed") *)
RedirectBack_Feed(ref) == Redirect("/feed", 0)

RedirectBack(ref) == Redirect(IF ref = "" THEN "/feed" ELSE ref, 0)

-----------------------------------------------------------------------------
(* Sessions *)

NoUser == [userid |-> 0, userfirstname |-> "", userlastname |-> "",
           useremail |-> "", manager |-> "undefined"]

NoSession == [isLoggedIn |-> FALSE, user |-> NoUser]

Profile(u) == [userid |-> u.userid, userfirstname |-> u.userfirstname,
               userlastname |-> u.userlastname, useremail |-> u.useremail,
               manager |-> u.manager]

Truthy(m) == m = "true"

-----------------------------------------------------------------------------
(* The auth gate.  A path is its sequence of segments: "/" is << >>,
   "/post/7" is <<"post", ":id">> *)

publicPaths == {<< >>, <<"feed">>, <<"login">>, <<"register">>, <<"logout">>}

PathOf(route) ==
    CASE route = "landing" -> << >>
      [] route = "post" -> <<"post", ":id">>
      [] route = "reply" -> <<"reply", ":id">>
      [] route = "deletePost" -> <<"deletePost", ":id">>
      [] route = "deleteReply" -> <<"deleteReply", ":id">>
      [] route = "static" -> <<"public", "style.css">>
      [] OTHER -> <<route>>

GateOpen_Always(path, sess) == TRUE

GateOpen(path, sess) ==
    \/ (Len(path) >= 1 /\ path[1] = "public")
    \/ (Len(path) >= 2 /\ path[1] = "post")
    \/ path \in publicPaths
    \/ sess.isLoggedIn

LoginWall == Render("login", "Please log in to access that page")

(* The currentUser a response hands to its view: the feed, post and newPost
   views are given req.session.user (undefined or null without a login), the
   login and register views are given error_message only *)
NoViewer == [given |-> FALSE, user |-> NoUser]

CurrentUser_Nobody(resp, sess) ==
    IF resp.kind = "render" /\ resp.to \in {"feed", "post", "newPost"}
    THEN [given |-> TRUE, user |-> NoUser]
    ELSE NoViewer

CurrentUser(resp, sess) ==
    IF resp.kind = "render" /\ resp.to \in {"feed", "post", "newPost"}
    THEN [given |-> TRUE, user |-> sess.user]
    ELSE NoViewer

-----------------------------------------------------------------------------
(* The relational store.  Rows are records, tables are sets of rows *)

UserRow(id, first, lastn, email, pw, salt, mgr) ==
    [userid |-> id, userfirstname |-> first, userlastname |-> lastn,
     useremail |-> email, userpassword |-> crypt(pw, salt), manager |-> mgr]

(* users present before the first request: a manager and two members *)
SeedUsers == {UserRow(1, "Mia", "Kay", "m@x", "pw", "s1", "true"),
              UserRow(2, "Ann", "Lee", "a@x", "pw", "s1", "false"),
              UserRow(3, "Bob", "Ray", "b@x", "pw", "s1", "false")}

(* knex("users").where("useremail", email).first() *)
UserByEmail(email) == {u \in users : u.useremail = email}

(* users.useremail is unique: the store refuses a second row with the email *)
EmailFree(email) == UserByEmail(email) = {}

LoginRows_EmailOnly(email, pw) == {u \in users : u.useremail = email}

(* SELECT ... WHERE useremail = ? AND userpassword = crypt(?, userpassword) *)
LoginRows(email, pw) ==
    {u \in users : /\ u.useremail = email
                   /\ u.userpassword = crypt(pw, u.userpassword.salt)}

(* select("userid").where("subid", postId).first() *)
SubById(postId) == {p \in submissions : p.subid = postId}

ReplyById(replyId) == {r \in replies : r.replyid = replyId}

NewSubmission_Manager(userid, subtext) ==
    [subid |-> nextSubId, userid |-> 1, subtext |-> subtext,
     subnegativestatus |-> FALSE, subdate |-> clock]

(* the row knex("submissions").insert({...}) adds *)
NewSubmission(userid, subtext) ==
    [subid |-> nextSubId, userid |-> userid, subtext |-> subtext,
     subnegativestatus |-> FALSE, subdate |-> clock]

(* the row knex("replies").insert({...}) adds *)
NewReply(userid, subId, replytext) ==
    [replyid |-> nextReplyId, subid |-> subId, userid |-> userid,
     replytext |-> replytext, replydate |-> clock]

(* replies.subid and subreactions.subid reference submissions *)
SubExists(subId) == SubById(subId) # {}

(* the key columns and the reaction type of a subreactions row are not null;
   0 stands for a field the request body does not carry *)
ReactionNotNull(subid, reactionid) == subid # 0 /\ reactionid # 0

UpsertReaction_KeepFirst(rows, subid, userid, reactionid) ==
    IF \E r \in rows : r.subid = subid /\ r.userid = userid
    THEN rows
    ELSE rows \cup {[subid |-> subid, userid |-> userid, reactionid |-> reactionid]}

UpsertReaction_InsertOnly(rows, subid, userid, reactionid) ==
    rows \cup {[subid |-> subid, userid |-> userid, reactionid |-> reactionid]}

(* INSERT ... ON CONFLICT (subid, userid) DO UPDATE SET reactionid = ... *)
UpsertReaction(rows, subid, userid, reactionid) ==
    {r \in rows : ~(r.subid = subid /\ r.userid = userid)}
        \cup {[subid |-> subid, userid |-> userid, reactionid |-> reactionid]}

(* the reaction type the pair holds, 0 when it holds none *)
PrevReaction(rows, subid, userid) ==
    LET mine == {r \in rows : r.subid = subid /\ r.userid = userid}
    IN IF mine = {} THEN 0 ELSE (CHOOSE r \in mine : TRUE).reactionid

DeleteReaction_Submission(rows, subid, userid) == {r \in rows : r.subid # subid}

DeleteReaction_Toggle(rows, subid, userid) ==
    IF \E r \in rows : r.subid = subid /\ r.userid = userid
    THEN {r \in rows : ~(r.subid = subid /\ r.userid = userid)}
    ELSE rows \cup {[subid |-> subid, userid |-> userid, reactionid |-> 1]}

(* knex("subreactions").where({subid, userid}).del() *)
DeleteReaction(rows, subid, userid) ==
    {r \in rows : ~(r.subid = subid /\ r.userid = userid)}

CascadeReplies_None(rows, postId) == rows

(* knex("submissions").where("subid", postId).del(): the schema cascades the
   delete to the replies and the reactions of the submission *)
CascadeReplies(rows, postId) == {r \in rows : r.subid # postId}

CascadeReactions_None(rows, postId) == rows

CascadeReactions(rows, postId) == {r \in rows : r.subid # postId}

-----------------------------------------------------------------------------
(* The feed aggregator *)

(* submissions left-joined with users; the author columns are "" when the
   author row is missing *)
JoinAuthor(p) ==
    LET a == {u \in users : u.userid = p.userid} IN
    [subid |-> p.subid, subtext |-> p.subtext,
     subnegativestatus |-> p.subnegativestatus, subdate |-> p.subdate,
     authorid |-> p.userid,
     userfirstname |-> IF a = {} THEN "" ELSE (CHOOSE u \in a : TRUE).userfirstname,
     userlastname |-> IF a = {} THEN "" ELSE (CHOOSE u \in a : TRUE).userlastname]

Before_Ascending(x, y) == x.subdate <= y.subdate

(* which of two rows ORDER BY subdate DESC puts first *)
Before(x, y) == x.subdate >= y.subdate

(* .orderBy("submissions.subdate", "desc") *)
RECURSIVE OrderBySubdateDesc(_)
OrderBySubdateDesc(rows) ==
    IF rows = {} THEN << >>
    ELSE LET m == CHOOSE x \in rows : \A y \in rows : Before(x, y)
         IN <<m>> \o OrderBySubdateDesc(rows \ {m})

FeedSubs == OrderBySubdateDesc({JoinAuthor(p) : p \in submissions})

(* The search of the third listing.  Strings are spelled out as sequences of
   characters so that ILIKE can be computed on them *)
Chars(t) ==
    CASE t = "" -> << >>
      [] t = " " -> <<" ">>
      [] t = "good" -> <<"g", "o", "o", "d">>
      [] t = "meh" -> <<"m", "e", "h">>
      [] t = "bad" -> <<"b", "a", "d">>
      [] t = "Mia" -> <<"M", "i", "a">>
      [] t = "Kay" -> <<"K", "a", "y">>
      [] t = "Ann" -> <<"A", "n", "n">>
      [] t = "Lee" -> <<"L", "e", "e">>
      [] t = "Bob" -> <<"B", "o", "b">>
      [] t = "Ray" -> <<"R", "a", "y">>
      [] t = "oo" -> <<"o", "o">>
      [] t = "E" -> <<"E">>
      [] t = "%" -> <<"%">>
      [] t = "g_" -> <<"g", "_">>
      [] t = "zz" -> <<"z", "z">>

UpperCase == <<"A", "B", "D", "E", "G", "H", "I", "K", "L", "M", "N", "O", "R", "Y", "Z">>
LowerCase == <<"a", "b", "d", "e", "g", "h", "i", "k", "l", "m", "n", "o", "r", "y", "z">>

Lower(ch) ==
    IF \E i \in DOMAIN UpperCase : UpperCase[i] = ch
    THEN LowerCase[CHOOSE i \in DOMAIN UpperCase : UpperCase[i] = ch]
    ELSE ch

LowerAll(str) == [i \in DOMAIN str |-> Lower(str[i])]

(* SQL LIKE: % matches any run of characters, _ any one character *)
RECURSIVE Like(_, _)
Like(str, pat) ==
    IF pat = << >> THEN str = << >>
    ELSE IF Head(pat) = "%"
    THEN Like(str, Tail(pat)) \/ (str # << >> /\ Like(Tail(str), pat))
    ELSE /\ str # << >>
         /\ (Head(pat) = "_" \/ Head(pat) = Head(str))
         /\ Like(Tail(str), Tail(pat))

(* whereILike(column, `%${q}%`): q goes into the pattern as it came *)
ILike(text, q) ==
    Like(LowerAll(Chars(text)), <<"%">> \o LowerAll(Chars(q)) \o <<"%">>)

(* parseInt(reaction): a number, or NaN for a text that starts with no digit *)
ParseInt(raw) ==
    CASE raw = "1" -> [isNumber |-> TRUE, n |-> 1]
      [] raw = "2" -> [isNumber |-> TRUE, n |-> 2]
      [] raw = "0" -> [isNumber |-> TRUE, n |-> 0]
      [] OTHER -> [isNumber |-> FALSE, n |-> 0]

(* type = type || "content"; q = q ? q.trim() : "";
   reaction = reaction ? parseInt(reaction) : null *)
QueryType(type) == IF type = "" THEN "content" ELSE type
QueryText(q) == IF q = "" THEN "" ELSE trim(q)
QueryReaction(raw) == IF raw = "" THEN [isNumber |-> FALSE, n |-> 0] ELSE ParseInt(raw)

(* the where clauses feedQuery gets; the first two listings read no query *)
Kept(l, row, type, q, raw) ==
    LET t == QueryType(type)
        text == QueryText(q)
        reaction == QueryReaction(raw)
    IN l = "L3" =>
         /\ (t = "content" /\ text # "") => ILike(row.subtext, text)
         /\ (t = "user" /\ text # "")
               => /\ \E u \in users : u.userid = row.authorid
                  /\ (ILike(row.userfirstname, text) \/ ILike(row.userlastname, text))
         /\ (t = "reaction" /\ reaction.isNumber /\ reaction.n # 0)
               => \E r \in subreactions : r.subid = row.subid /\ r.reactionid = reaction.n

FeedQuery(l, type, q, raw) ==
    OrderBySubdateDesc({row \in {JoinAuthor(p) : p \in submissions} :
                          Kept(l, row, type, q, raw)})

SubIds(subs) == {subs[i].subid : i \in 1..Len(subs)}

(* select("subid", "reactionid").count("* as cnt").whereIn("subid", subIds)
   .groupBy("subid", "reactionid") *)
BreakdownRows(subIds) ==
    {[subid |-> r.subid, reactionid |-> r.reactionid,
      cnt |-> Cardinality({x \in subreactions :
                             x.subid = r.subid /\ x.reactionid = r.reactionid})]
       : r \in {x \in subreactions : x.subid \in subIds}}

CountsRows_Types(subIds) ==
    {[subid |-> r.subid,
      cnt |-> Cardinality({x.reactionid : x \in {y \in subreactions :
                             y.subid = r.subid /\ y.reactionid # 0}})]
       : r \in {x \in subreactions : x.subid \in subIds}}

(* select("subid").count("reactionid as cnt").whereIn(...).groupBy("subid") *)
CountsRows(subIds) ==
    {[subid |-> r.subid,
      cnt |-> Cardinality({x \in subreactions :
                             x.subid = r.subid /\ x.reactionid # 0})]
       : r \in {x \in subreactions : x.subid \in subIds}}

AddTotal_Overwrite(totals, r) == Put(totals, r.subid, r.cnt)

(* totals[sid] = (totals[sid] || 0) + cnt *)
AddTotal(totals, r) == Put(totals, r.subid, GetOr(totals, r.subid, 0) + r.cnt)

(* if (!breakdown[sid]) breakdown[sid] = {}; breakdown[sid][rid] = cnt *)
AddBreakdown(breakdown, r) ==
    Put(breakdown, r.subid, Put(GetOr(breakdown, r.subid, EmptyObj), r.reactionid, r.cnt))

(* breakdownRows.forEach(...) for the two maps *)
RECURSIVE Totals(_)
Totals(rows) ==
    IF rows = {} THEN EmptyObj
    ELSE LET r == CHOOSE x \in rows : TRUE IN AddTotal(Totals(rows \ {r}), r)

RECURSIVE Breakdown(_)
Breakdown(rows) ==
    IF rows = {} THEN EmptyObj
    ELSE LET r == CHOOSE x \in rows : TRUE IN AddBreakdown(Breakdown(rows \ {r}), r)

(* countsRows.forEach(r => { counts[r.subid] = parseInt(r.cnt, 10); }) *)
RECURSIVE Counts(_)
Counts(rows) ==
    IF rows = {} THEN EmptyObj
    ELSE LET r == CHOOSE x \in rows : TRUE IN Put(Counts(rows \ {r}), r.subid, r.cnt)

MyReactionRows_AnyUser(subIds, sess) ==
    IF sess.isLoggedIn
    THEN {r \in subreactions : r.subid \in subIds}
    ELSE {}

(* the viewer's own rows: whereIn("subid", subIds).andWhere("userid", ...) *)
MyReactionRows(subIds, sess) ==
    IF sess.isLoggedIn
    THEN {r \in subreactions : r.subid \in subIds /\ r.userid = sess.user.userid}
    ELSE {}

(* myReRows.forEach(r => { myReactions[r.subid] = r.reactionid; }) *)
RECURSIVE MyReactions(_)
MyReactions(rows) ==
    IF rows = {} THEN EmptyObj
    ELSE LET r == CHOOSE x \in rows : TRUE
         IN Put(MyReactions(rows \ {r}), r.subid, r.reactionid)

NoPage == [kind |-> "none"]

(* what res.render("feed", {...}) is given *)
FeedPageOf(subs, sess) ==
    LET ids == SubIds(subs)
    IN [kind |-> "feed",
        submissions |-> subs,
        reactionCounts |-> IF listing = "L2" THEN Counts(CountsRows(ids))
                           ELSE Totals(BreakdownRows(ids)),
        reactionBreakdown |-> IF listing = "L2" THEN EmptyObj
                              ELSE Breakdown(BreakdownRows(ids)),
        myReactions |-> MyReactions(MyReactionRows(ids, sess))]

(* GET /feed without a query string *)
FeedPage(sess) == FeedPageOf(FeedSubs, sess)

(* the page of GET /feed when a query fails *)
FeedErrorPage ==
    [kind |-> "feed", submissions |-> << >>, reactionCounts |-> EmptyObj,
     reactionBreakdown |-> EmptyObj, myReactions |-> EmptyObj]

(* replies of a post, oldest first *)
RECURSIVE OrderByReplydateAsc(_)
OrderByReplydateAsc(rows) ==
    IF rows = {} THEN << >>
    ELSE LET m == CHOOSE x \in rows : \A y \in rows : x.replydate <= y.replydate
         IN <<m>> \o OrderByReplydateAsc(rows \ {m})

(* the page of GET /post/:id when the post is missing or a query fails *)
PostMissingPage ==
    [kind |-> "post", found |-> FALSE, replies |-> << >>, reactionCounts |-> 0,
     reactionBreakdown |-> EmptyObj]

(* what res.render("post", {...}) is given *)
PostPage(postId) ==
    IF SubById(postId) = {} THEN PostMissingPage
    ELSE LET rows == {[subid |-> postId, reactionid |-> r.reactionid, cnt |-> r.cnt]
                        : r \in BreakdownRows({postId})}
         IN [kind |-> "post", found |-> TRUE,
             replies |-> OrderByReplydateAsc({r \in replies : r.subid = postId}),
             reactionCounts |-> IF listing = "L2"
                                THEN Cardinality({x \in subreactions :
                                        x.subid = postId /\ x.reactionid # 0})
                                ELSE GetOr(Totals(rows), postId, 0),
             reactionBreakdown |-> IF listing = "L2" THEN EmptyObj
                                   ELSE Put(EmptyObj, postId,
                                            GetOr(Breakdown(rows), postId, EmptyObj))]

-----------------------------------------------------------------------------
(* Requests.  pending[c] is the request of client c that waits between two
   statements of its promise chain, with the values its handler holds in
   local constants; during is the set of clients whose request was in flight
   when this one arrived.  last is the request completed last, with the
   responses its handler attempted *)

Idle == [route |-> "idle", id |-> 0, subid |-> 0, firstname |-> "",
         lastname |-> "", email |-> "", password |-> "",
         userid |-> 0, reactionid |-> 0, text |-> "", ref |-> "", during |-> {}]

InFlight(c) == {d \in Clients \ {c} : pending[d].route # "idle"}

IsIdle(c) == pending[c].route = "idle"

NoRequest == [route |-> "none", c |-> "c1", user |-> 0, id |-> 0, prev |-> 0, reached |-> FALSE,
              ok |-> FALSE, resps |-> << >>, unhandled |-> FALSE, page |-> NoPage,
              viewer |-> NoViewer, email |-> "", during |-> {}]

(* the record of a completed request: who sent it, whether the gate let it
   through, whether its store call succeeded, the responses attempted, the
   data of the page rendered and the currentUser given to that page *)
Completed(c, route, id, prev, reached, ok, resps, unhandled, page) ==
    [route |-> route, c |-> c, user |-> session[c].user.userid, id |-> id,
     prev |-> prev, reached |-> reached, ok |-> ok, resps |-> resps,
     unhandled |-> unhandled, page |-> page,
     viewer |-> CurrentUser(resps[1], session[c]), email |-> "",
     during |-> pending[c].during]

Answer(c, route, id, prev, reached, ok, resps, unhandled, page) ==
    last' = Completed(c, route, id, prev, reached, ok, resps, unhandled, page)

(* the gate answered: the handler is not reached and nothing changes *)
Walled(c, route, id) ==
    /\ Answer(c, route, id, 0, FALSE, FALSE, <<LoginWall>>, FALSE, NoPage)
    /\ UNCHANGED <<listing, users, submissions, replies, subreactions,
                   nextUserId, nextSubId, nextReplyId, clock, session, pending>>

(* the handler answered without changing the store or the session *)
Respond(c, route, id, resps, unhandled, page) ==
    /\ Answer(c, route, id, 0, TRUE, FALSE, resps, unhandled, page)
    /\ UNCHANGED <<listing, users, submissions, replies, subreactions,
                   nextUserId, nextSubId, nextReplyId, clock, session, pending>>

(* routes whose handler starts with its own check of req.session.isLoggedIn *)
HasInnerCheck(l, route) ==
    \/ route \in {"reply", "react", "unreact", "deletePost"}
    \/ (l = "L3" /\ route = "deleteReply")
    \/ (l \in {"L1", "L2"} /\ route \in {"newpostForm", "newpost"})

InnerDeny(l, route) ==
    IF route = "react" /\ l \in {"L1", "L2"}
    THEN Json(401, "Login required")
    ELSE Redirect("/login", 0)

(* the moderation gate of each listing *)
Rejected(l, text) ==
    CASE l = "L1" -> analyze(text) < 0
      [] l = "L2" -> FALSE
      [] l = "L3" -> analyze(text) < 0

PostRejectMsg(l) ==
    IF l = "L1"
    THEN "Oops! We only allow Good News here. Your post was detected as negative."
    ELSE "Oops! Only good news allowed."

PostErrorMsg_None(l) == ""

PostErrorMsg(l) == IF l = "L3" THEN "Error submitting post." ELSE "Error adding post"

-----------------------------------------------------------------------------
(* POST /newpost *)

NewPost(c, subtext, dbOk) ==
    /\ IsIdle(c)
    /\ LET sess == session[c] IN
       IF ~GateOpen(PathOf("newpost"), sess)
       THEN Walled(c, "newpost", 0)
       ELSE IF HasInnerCheck(listing, "newpost") /\ ~sess.isLoggedIn
       THEN Respond(c, "newpost", 0, <<InnerDeny(listing, "newpost")>>, FALSE, NoPage)
       ELSE IF IsEmptyText(subtext)
       THEN Respond(c, "newpost", 0,
                   <<Render("newPost", "Post content cannot be empty.")>>, FALSE, NoPage)
       ELSE IF Rejected(listing, subtext)
       THEN Respond(c, "newpost", 0,
                   <<Render("newPost", PostRejectMsg(listing))>>, FALSE, NoPage)
       ELSE IF ~sess.isLoggedIn
       THEN Respond(c, "newpost", 0, <<Send(500, "TypeError")>>, FALSE, NoPage)
       ELSE IF dbOk
       THEN /\ nextSubId <= MaxSubs
            /\ submissions' = submissions \cup {NewSubmission(sess.user.userid, subtext)}
            /\ nextSubId' = nextSubId + 1
            /\ clock' = clock + 1
            /\ Answer(c, "newpost", nextSubId, 0, TRUE, TRUE,
                      <<Redirect("/feed", 0)>>, FALSE, NoPage)
            /\ UNCHANGED <<listing, users, replies, subreactions, nextUserId,
                           nextReplyId, session, pending>>
       ELSE Respond(c, "newpost", 0,
                   <<Render("newPost", PostErrorMsg(listing))>>, FALSE, NoPage)

-----------------------------------------------------------------------------
(* POST /reply/:id *)

ReplyRejectResp(l, subId, dbOk) ==
    IF l = "L1" THEN Redirect("/post/:id?error=negative", subId)
    ELSE IF dbOk
    THEN Render("post", "Oops! Your reply is too negative! Please keep it positive (:")
    ELSE Redirect("/post/:id", subId)

Reply(c, subId, replytext, dbOk) ==
    /\ IsIdle(c)
    /\ LET sess == session[c] IN
       IF ~GateOpen(PathOf("reply"), sess)
       THEN Walled(c, "reply", subId)
       ELSE IF HasInnerCheck(listing, "reply") /\ ~sess.isLoggedIn
       THEN Respond(c, "reply", subId, <<InnerDeny(listing, "reply")>>, FALSE, NoPage)
       ELSE IF IsEmptyText(replytext)
       THEN Respond(c, "reply", subId, <<Redirect("/post/:id", subId)>>, FALSE, NoPage)
       ELSE IF Rejected(listing, replytext)
       THEN Respond(c, "reply", subId,
                   <<ReplyRejectResp(listing, subId, dbOk)>>, FALSE,
                   IF listing = "L3" /\ dbOk THEN PostPage(subId) ELSE NoPage)
       ELSE IF dbOk /\ SubExists(subId)
       THEN /\ nextReplyId <= MaxReplies
            /\ replies' = replies \cup {NewReply(sess.user.userid, subId, replytext)}
            /\ nextReplyId' = nextReplyId + 1
            /\ clock' = clock + 1
            /\ Answer(c, "reply", subId, 0, TRUE, TRUE,
                      <<Redirect("/post/:id", subId)>>, FALSE, NoPage)
            /\ UNCHANGED <<listing, users, submissions, subreactions, nextUserId,
                           nextSubId, session, pending>>
       ELSE Respond(c, "reply", subId, <<Redirect("/post/:id", subId)>>, FALSE, NoPage)

(* POST /reply/:id as the two steps the event loop runs: the handler checks
   the session and the text and hands the insert to the store; the store
   runs the statement and the callback answers *)
ReplyBegin(c, subId, replytext) ==
    /\ IsIdle(c)
    /\ LET sess == session[c] IN
       IF ~GateOpen(PathOf("reply"), sess)
       THEN Walled(c, "reply", subId)
       ELSE IF HasInnerCheck(listing, "reply") /\ ~sess.isLoggedIn
       THEN Respond(c, "reply", subId, <<InnerDeny(listing, "reply")>>, FALSE, NoPage)
       ELSE IF IsEmptyText(replytext)
       THEN Respond(c, "reply", subId, <<Redirect("/post/:id", subId)>>, FALSE, NoPage)
       ELSE IF Rejected(listing, replytext)
       THEN Respond(c, "reply", subId,
                   <<ReplyRejectResp(listing, subId, TRUE)>>, FALSE,
                   IF listing = "L3" THEN PostPage(subId) ELSE NoPage)
       ELSE /\ pending' = [pending EXCEPT ![c] =
                             [Idle EXCEPT !.route = "reply", !.subid = subId,
                                          !.userid = sess.user.userid,
                                          !.text = replytext,
                                          !.during = InFlight(c)]]
            /\ UNCHANGED <<listing, users, submissions, replies, subreactions,
                           nextUserId, nextSubId, nextReplyId, clock, session, last>>

ReplyStore(c, dbOk) ==
    /\ pending[c].route = "reply"
    /\ pending' = [pending EXCEPT ![c] = Idle]
    /\ LET p == pending[c] IN
       IF dbOk /\ SubExists(p.subid)
       THEN /\ nextReplyId <= MaxReplies
            /\ replies' = replies \cup {NewReply(p.userid, p.subid, p.text)}
            /\ nextReplyId' = nextReplyId + 1
            /\ clock' = clock + 1
            /\ Answer(c, "reply", p.subid, 0, TRUE, TRUE,
                      <<Redirect("/post/:id", p.subid)>>, FALSE, NoPage)
            /\ UNCHANGED <<listing, users, submissions, subreactions, nextUserId,
                           nextSubId, session>>
       ELSE /\ Answer(c, "reply", p.subid, 0, TRUE, FALSE,
                      <<Redirect("/post/:id", p.subid)>>, FALSE, NoPage)
            /\ UNCHANGED <<listing, users, submissions, replies, subreactions,
                           nextUserId, nextSubId, nextReplyId, clock, session>>

-----------------------------------------------------------------------------
(* POST /react and POST /unreact *)

(* if (!subId || !reactionId) return res.status(400)... : L1 and L2 only *)
MissingReactField(l, subid, reactionid) ==
    l \in {"L1", "L2"} /\ (subid = 0 \/ reactionid = 0)

React(c, subid, reactionid, ref, dbOk) ==
    /\ IsIdle(c)
    /\ LET sess == session[c] IN
       IF ~GateOpen(PathOf("react"), sess)
       THEN Walled(c, "react", subid)
       ELSE IF HasInnerCheck(listing, "react") /\ ~sess.isLoggedIn
       THEN Respond(c, "react", subid, <<InnerDeny(listing, "react")>>, FALSE, NoPage)
       ELSE IF MissingReactField(listing, subid, reactionid)
       THEN Respond(c, "react", subid,
                   <<Json(400, "subid and reactionid required")>>, FALSE, NoPage)
       ELSE IF dbOk /\ ReactionNotNull(subid, reactionid) /\ SubExists(subid)
       THEN /\ subreactions' = UpsertReaction(subreactions, subid, sess.user.userid, reactionid)
            /\ Answer(c, "react", subid, PrevReaction(subreactions, subid, sess.user.userid),
                      TRUE, TRUE, <<RedirectBack(ref)>>, FALSE, NoPage)
            /\ UNCHANGED <<listing, users, submissions, replies, nextUserId, nextSubId,
                           nextReplyId, clock, session, pending>>
       ELSE Respond(c, "react", subid, <<RedirectBack(ref)>>, FALSE, NoPage)

Unreact(c, subid, ref, dbOk) ==
    /\ IsIdle(c)
    /\ LET sess == session[c] IN
       IF ~GateOpen(PathOf("unreact"), sess)
       THEN Walled(c, "unreact", subid)
       ELSE IF HasInnerCheck(listing, "unreact") /\ ~sess.isLoggedIn
       THEN Respond(c, "unreact", subid, <<InnerDeny(listing, "unreact")>>, FALSE, NoPage)
       ELSE IF dbOk /\ subid # 0
       THEN /\ subreactions' = DeleteReaction(subreactions, subid, sess.user.userid)
            /\ Answer(c, "unreact", subid, PrevReaction(subreactions, subid, sess.user.userid),
                      TRUE, TRUE, <<RedirectBack(ref)>>, FALSE, NoPage)
            /\ UNCHANGED <<listing, users, submissions, replies, nextUserId, nextSubId,
                           nextReplyId, clock, session, pending>>
       ELSE Respond(c, "unreact", subid, <<RedirectBack(ref)>>, FALSE, NoPage)

(* POST /react as the two steps the event loop runs: the handler reads the
   session and the body and hands the upsert to the store; the store runs the
   statement and the callback answers.  Requests of other clients run in
   between *)
ReactBegin(c, subid, reactionid, ref) ==
    /\ IsIdle(c)
    /\ LET sess == session[c] IN
       IF ~GateOpen(PathOf("react"), sess)
       THEN Walled(c, "react", subid)
       ELSE IF HasInnerCheck(listing, "react") /\ ~sess.isLoggedIn
       THEN Respond(c, "react", subid, <<InnerDeny(listing, "react")>>, FALSE, NoPage)
       ELSE IF MissingReactField(listing, subid, reactionid)
       THEN Respond(c, "react", subid,
                   <<Json(400, "subid and reactionid required")>>, FALSE, NoPage)
       ELSE /\ pending' = [pending EXCEPT ![c] =
                             [Idle EXCEPT !.route = "react", !.subid = subid,
                                          !.userid = sess.user.userid,
                                          !.reactionid = reactionid, !.ref = ref,
                                          !.during = InFlight(c)]]
            /\ UNCHANGED <<listing, users, submissions, replies, subreactions,
                           nextUserId, nextSubId, nextReplyId, clock, session, last>>

ReactStore(c, dbOk) ==
    /\ pending[c].route = "react"
    /\ pending' = [pending EXCEPT ![c] = Idle]
    /\ LET p == pending[c] IN
       IF dbOk /\ ReactionNotNull(p.subid, p.reactionid) /\ SubExists(p.subid)
       THEN /\ subreactions' = UpsertReaction(subreactions, p.subid, p.userid, p.reactionid)
            /\ Answer(c, "react", p.subid, PrevReaction(subreactions, p.subid, p.userid),
                      TRUE, TRUE, <<RedirectBack(p.ref)>>, FALSE, NoPage)
            /\ UNCHANGED <<listing, users, submissions, replies, nextUserId, nextSubId,
                           nextReplyId, clock, session>>
       ELSE /\ Answer(c, "react", p.subid, 0, TRUE, FALSE, <<RedirectBack(p.ref)>>,
                      FALSE, NoPage)
            /\ UNCHANGED <<listing, users, submissions, replies, subreactions,
                           nextUserId, nextSubId, nextReplyId, clock, session>>

-----------------------------------------------------------------------------
(* POST /deletePost/:id: load the owner, then delete *)

MayDelete_Anyone(row, sess) == TRUE

(* isOwner || isManager, read from the session *)
MayDelete(row, sess) ==
    row.userid = sess.user.userid \/ Truthy(sess.user.manager)

DeniedMsg(l) == IF l = "L3" THEN "Not authorized" ELSE "Not authorized to delete this post"

(* L3 chains .then(() => res.redirect("/feed")) after the step that has
   already answered: the redirect throws, the catch redirects and throws
   again, and the rejection is left unhandled *)
AfterAnswer(l, first) ==
    IF l = "L3" THEN <<first, Redirect("/feed", 0), Redirect("/feed", 0)>> ELSE <<first>>

DeletePostLoad(c, postId, dbOk) ==
    /\ IsIdle(c)
    /\ LET sess == session[c]
           post == SubById(postId)
       IN
       IF ~GateOpen(PathOf("deletePost"), sess)
       THEN Walled(c, "deletePost", postId)
       ELSE IF HasInnerCheck(listing, "deletePost") /\ ~sess.isLoggedIn
       THEN Respond(c, "deletePost", postId, <<InnerDeny(listing, "deletePost")>>, FALSE, NoPage)
       ELSE IF ~dbOk
       THEN Respond(c, "deletePost", postId, <<Redirect("/feed", 0)>>, FALSE, NoPage)
       ELSE IF post = {}
       THEN Respond(c, "deletePost", postId,
                   AfterAnswer(listing, Redirect("/feed", 0)), listing = "L3", NoPage)
       ELSE IF ~MayDelete(CHOOSE p \in post : TRUE, sess)
       THEN Respond(c, "deletePost", postId,
                   AfterAnswer(listing, Send(403, DeniedMsg(listing))), listing = "L3", NoPage)
       ELSE /\ pending' = [pending EXCEPT ![c] = [Idle EXCEPT !.route = "deletePost", !.id = postId]]
            /\ UNCHANGED <<listing, users, submissions, replies, subreactions,
                           nextUserId, nextSubId, nextReplyId, clock, session, last>>

(* how many replies and reactions hang on a submission *)
Dependents(postId) ==
    Cardinality({r \in replies : r.subid = postId})
        + Cardinality({r \in subreactions : r.subid = postId})

DeletePostDel(c, dbOk) ==
    /\ pending[c].route = "deletePost"
    /\ pending' = [pending EXCEPT ![c] = Idle]
    /\ LET postId == pending[c].id IN
       IF dbOk
       THEN /\ submissions' = submissions \ SubById(postId)
            /\ replies' = CascadeReplies(replies, postId)
            /\ subreactions' = CascadeReactions(subreactions, postId)
            /\ Answer(c, "deletePost", postId, Dependents(postId), TRUE, TRUE,
                      <<Redirect("/feed", 0)>>, FALSE, NoPage)
            /\ UNCHANGED <<listing, users, nextUserId, nextSubId, nextReplyId, clock, session>>
       ELSE /\ Answer(c, "deletePost", postId, 0, TRUE, FALSE, <<Redirect("/feed", 0)>>, FALSE, NoPage)
            /\ UNCHANGED <<listing, users, submissions, replies, subreactions,
                           nextUserId, nextSubId, nextReplyId, clock, session>>

-----------------------------------------------------------------------------
(* POST /deleteReply/:id: a route of L3 only *)

HasRoute(l, route) == route # "other" /\ (route = "deleteReply" => l = "L3")

DeleteReplyLoad(c, replyId, dbOk) ==
    /\ IsIdle(c)
    /\ LET sess == session[c]
           reply == ReplyById(replyId)
       IN
       IF ~GateOpen(PathOf("deleteReply"), sess)
       THEN Walled(c, "deleteReply", replyId)
       ELSE IF ~HasRoute(listing, "deleteReply")
       THEN Respond(c, "deleteReply", replyId, <<Send(404, "Cannot POST")>>, FALSE, NoPage)
       ELSE IF HasInnerCheck(listing, "deleteReply") /\ ~sess.isLoggedIn
       THEN Respond(c, "deleteReply", replyId, <<InnerDeny(listing, "deleteReply")>>, FALSE, NoPage)
       ELSE IF ~dbOk \/ reply = {}
       THEN Respond(c, "deleteReply", replyId, <<Redirect("/feed", 0)>>, FALSE, NoPage)
       ELSE IF ~MayDelete(CHOOSE r \in reply : TRUE, sess)
       THEN Respond(c, "deleteReply", replyId, <<Send(403, "Not authorized")>>, FALSE, NoPage)
       ELSE /\ pending' = [pending EXCEPT ![c] =
                             [Idle EXCEPT !.route = "deleteReply", !.id = replyId,
                                          !.subid = (CHOOSE r \in reply : TRUE).subid]]
            /\ UNCHANGED <<listing, users, submissions, replies, subreactions,
                           nextUserId, nextSubId, nextReplyId, clock, session, last>>

DeleteReplyDel(c, dbOk) ==
    /\ pending[c].route = "deleteReply"
    /\ pending' = [pending EXCEPT ![c] = Idle]
    /\ LET replyId == pending[c].id IN
       IF dbOk
       THEN /\ replies' = replies \ ReplyById(replyId)
            /\ Answer(c, "deleteReply", replyId, 0, TRUE, TRUE,
                      <<Redirect("/post/:id", pending[c].subid)>>, FALSE, NoPage)
            /\ UNCHANGED <<listing, users, submissions, subreactions,
                           nextUserId, nextSubId, nextReplyId, clock, session>>
       ELSE /\ Answer(c, "deleteReply", replyId, 0, TRUE, FALSE,
                      <<Redirect("/feed", 0)>>, FALSE, NoPage)
            /\ UNCHANGED <<listing, users, submissions, replies, subreactions,
                           nextUserId, nextSubId, nextReplyId, clock, session>>

-----------------------------------------------------------------------------
(* POST /register: check the email, then insert *)

MissingField(first, lastn, email, pw) ==
    first = "" \/ lastn = "" \/ email = "" \/ pw = ""

(* the responses of the branch that finds the email taken: L1 and L3 end the
   chain with null, L2 returns the value of res.render() and its next step
   renders again *)
DuplicateResps(l) ==
    IF l = "L2"
    THEN <<Render("register", "Email already registered"),
           Render("register", "Registration error")>>
    ELSE <<Render("register", "Email already registered")>>

(* the session profile after the insert: L2 copies no manager flag *)
RegisteredProfile(l, row) ==
    IF l = "L2" THEN [Profile(row) EXCEPT !.manager = "undefined"] ELSE Profile(row)

RegisterErrorResp_Feed(l) == Redirect("/feed", 0)

(* .catch(err => { ... res.render("register", "Registration error") }): the
   answer when the lookup or the insert is rejected by the store *)
RegisterErrorResp(l) == Render("register", "Registration error")

RegisterCheck(c, first, lastn, email, pw, dbOk) ==
    /\ IsIdle(c)
    /\ IF ~GateOpen(PathOf("register"), session[c])
       THEN Walled(c, "register", 0)
       ELSE IF MissingField(first, lastn, email, pw)
       THEN Respond(c, "register", 0,
                   <<Render("register", "All fields required")>>, FALSE, NoPage)
       ELSE IF ~dbOk
       THEN Respond(c, "register", 0, <<RegisterErrorResp(listing)>>, FALSE, NoPage)
       ELSE IF UserByEmail(email) # {}
       THEN Respond(c, "register", 0, DuplicateResps(listing), FALSE, NoPage)
       ELSE /\ pending' = [pending EXCEPT ![c] =
                             [Idle EXCEPT !.route = "register", !.firstname = first,
                                          !.lastname = lastn, !.email = email,
                                          !.password = pw]]
            /\ UNCHANGED <<listing, users, submissions, replies, subreactions,
                           nextUserId, nextSubId, nextReplyId, clock, session, last>>

RegisterInsert(c, salt, dbOk) ==
    /\ pending[c].route = "register"
    /\ pending' = [pending EXCEPT ![c] = Idle]
    /\ LET p == pending[c]
           row == UserRow(nextUserId, p.firstname, p.lastname, p.email,
                          p.password, salt, "false")
       IN
       IF dbOk /\ EmailFree(p.email)
       THEN /\ nextUserId <= MaxUsers
            /\ users' = users \cup {row}
            /\ nextUserId' = nextUserId + 1
            /\ session' = [session EXCEPT ![c] =
                             [isLoggedIn |-> TRUE, user |-> RegisteredProfile(listing, row)]]
            /\ Answer(c, "register", row.userid, 0, TRUE, TRUE,
                      <<Redirect("/feed", 0)>>, FALSE, NoPage)
            /\ UNCHANGED <<listing, submissions, replies, subreactions,
                           nextSubId, nextReplyId, clock>>
       ELSE /\ Answer(c, "register", 0, 0, TRUE, FALSE,
                      <<RegisterErrorResp(listing)>>, FALSE, NoPage)
            /\ UNCHANGED <<listing, users, submissions, replies, subreactions,
                           nextUserId, nextSubId, nextReplyId, clock, session>>

-----------------------------------------------------------------------------
(* POST /login and GET /logout *)

(* if (!sEmail || !sPassword): L1 and L2 only *)
MissingCredential(l, email, pw) == l \in {"L1", "L2"} /\ (email = "" \/ pw = "")

(* users.length > 0 in L1 and L2, rows.length === 1 in L3 *)
LoginMatches(l, rows) ==
    IF l = "L3" THEN Cardinality(rows) = 1 ELSE Cardinality(rows) > 0

Login(c, email, pw, dbOk) ==
    /\ IsIdle(c)
    /\ LET rows == LoginRows(email, pw) IN
       IF ~GateOpen(PathOf("login"), session[c])
       THEN Walled(c, "login", 0)
       ELSE IF MissingCredential(listing, email, pw)
       THEN Respond(c, "login", 0,
                   <<Render("login", "Email and password required")>>, FALSE, NoPage)
       ELSE IF dbOk /\ email # "" /\ pw # "" /\ LoginMatches(listing, rows)
       THEN /\ session' = [session EXCEPT ![c] =
                             [isLoggedIn |-> TRUE,
                              user |-> Profile(CHOOSE u \in rows : TRUE)]]
            /\ last' = [Completed(c, "login", (CHOOSE u \in rows : TRUE).userid, 0,
                                  TRUE, TRUE, <<Redirect("/feed", 0)>>, FALSE, NoPage)
                          EXCEPT !.email = email]
            /\ UNCHANGED <<listing, users, submissions, replies, subreactions,
                           nextUserId, nextSubId, nextReplyId, clock, pending>>
       ELSE /\ last' = [Completed(c, "login", 0, 0, TRUE, FALSE,
                                  <<Render("login", "Invalid login")>>, FALSE, NoPage)
                          EXCEPT !.email = email]
            /\ UNCHANGED <<listing, users, submissions, replies, subreactions,
                           nextUserId, nextSubId, nextReplyId, clock, session, pending>>

Destroyed_Kept(sess) == sess

(* req.session.destroy(): the next request of the client starts a new session *)
Destroyed(sess) == NoSession

Logout(c) ==
    /\ IsIdle(c)
    /\ IF ~GateOpen(PathOf("logout"), session[c])
       THEN Walled(c, "logout", 0)
       ELSE /\ session' = [session EXCEPT ![c] = Destroyed(session[c])]
            /\ Answer(c, "logout", 0, 0, TRUE, TRUE, <<Redirect("/feed", 0)>>, FALSE, NoPage)
            /\ UNCHANGED <<listing, users, submissions, replies, subreactions,
                           nextUserId, nextSubId, nextReplyId, clock, pending>>

-----------------------------------------------------------------------------
(* The GET routes *)

GetFeed(c, dbOk) ==
    /\ IsIdle(c)
    /\ IF ~GateOpen(PathOf("feed"), session[c])
       THEN Walled(c, "feed", 0)
       ELSE IF dbOk
       THEN Respond(c, "feed", 0, <<Render("feed", "")>>, FALSE, FeedPage(session[c]))
       ELSE Respond(c, "feed", 0, <<Render("feed", "Database error")>>, FALSE, FeedErrorPage)

(* GET /feed?type=..&q=..&reaction=.. ; an absent parameter is "" *)
GetFeedQuery(c, type, q, raw) ==
    /\ IsIdle(c)
    /\ IF ~GateOpen(PathOf("feed"), session[c])
       THEN Walled(c, "feed", 0)
       ELSE Respond(c, "feed", 0, <<Render("feed", "")>>, FALSE,
                    FeedPageOf(FeedQuery(listing, type, q, raw), session[c]))

GetPost(c, postId, dbOk) ==
    /\ IsIdle(c)
    /\ IF ~GateOpen(PathOf("post"), session[c])
       THEN Walled(c, "post", postId)
       ELSE IF ~dbOk
       THEN Respond(c, "post", postId, <<Render("post", "Database error")>>, FALSE, PostMissingPage)
       ELSE IF SubById(postId) = {}
       THEN Respond(c, "post", postId, <<Render("post", "Post not found")>>, FALSE, PostMissingPage)
       ELSE Respond(c, "post", postId, <<Render("post", "")>>, FALSE, PostPage(postId))

(* the routes that only render a form, redirect or serve a file, and the
   paths no route matches (answered 404 by the framework) *)
PageRoutes == {"landing", "registerForm", "loginForm", "newpostForm", "static", "other"}

PagePath(route) ==
    CASE route = "registerForm" -> PathOf("register")
      [] route = "loginForm" -> PathOf("login")
      [] route = "newpostForm" -> PathOf("newpost")
      [] OTHER -> PathOf(route)

PageResp(route) ==
    CASE route = "landing" -> Redirect("/feed", 0)
      [] route = "registerForm" -> Render("register", "")
      [] route = "loginForm" -> Render("login", "")
      [] route = "newpostForm" -> Render("newPost", "")
      [] route = "static" -> Send(200, "file")
      [] OTHER -> Send(404, "Cannot GET")

GetPage(c, route) ==
    /\ IsIdle(c)
    /\ IF ~GateOpen(PagePath(route), session[c])
       THEN Walled(c, route, 0)
       ELSE IF HasInnerCheck(listing, route) /\ ~session[c].isLoggedIn
       THEN Respond(c, route, 0, <<InnerDeny(listing, route)>>, FALSE, NoPage)
       ELSE Respond(c, route, 0, <<PageResp(route)>>, FALSE, NoPage)

-----------------------------------------------------------------------------
(* The state after the server starts: the seeded users, an empty feed, no
   session *)

Init ==
    /\ listing \in Listings
    /\ users = SeedUsers
    /\ submissions = {}
    /\ replies = {}
    /\ subreactions = {}
    /\ nextUserId = Cardinality(SeedUsers) + 1
    /\ nextSubId = 1
    /\ nextReplyId = 1
    /\ clock = 1
    /\ session = [c \in Clients |-> NoSession]
    /\ pending = [c \in Clients |-> Idle]
    /\ last = NoRequest

Next ==
    \E c \in Clients :
        \/ \E t \in Texts, ok \in BOOLEAN : NewPost(c, t, ok)
        \/ \E s \in 1..MaxSubs, t \in Texts, ok \in BOOLEAN : Reply(c, s, t, ok)
        \/ \E s \in 1..MaxSubs, t \in Texts : ReplyBegin(c, s, t)
        \/ \E ok \in BOOLEAN : ReplyStore(c, ok)
        \/ \E s \in 0..MaxSubs, r \in {0} \cup ReactionIds, ref \in Referrers, ok \in BOOLEAN :
               React(c, s, r, ref, ok)
        \/ \E s \in 0..MaxSubs, ref \in Referrers, ok \in BOOLEAN : Unreact(c, s, ref, ok)
        \/ \E s \in 0..MaxSubs, r \in {0} \cup ReactionIds, ref \in Referrers :
               ReactBegin(c, s, r, ref)
        \/ \E ok \in BOOLEAN : ReactStore(c, ok)
        \/ \E s \in 1..MaxSubs, ok \in BOOLEAN : DeletePostLoad(c, s, ok)
        \/ \E ok \in BOOLEAN : DeletePostDel(c, ok)
        \/ \E r \in 1..MaxReplies, ok \in BOOLEAN : DeleteReplyLoad(c, r, ok)
        \/ \E ok \in BOOLEAN : DeleteReplyDel(c, ok)
        \/ \E f \in FirstNames, l \in LastNames, e \in Emails, p \in Passwords, ok \in BOOLEAN :
               RegisterCheck(c, f, l, e, p, ok)
        \/ \E salt \in Salts, ok \in BOOLEAN : RegisterInsert(c, salt, ok)
        \/ \E e \in Emails \cup {"m@x", "b@x"}, p \in Passwords, ok \in BOOLEAN :
               Login(c, e, p, ok)
        \/ Logout(c)
        \/ \E ok \in BOOLEAN : GetFeed(c, ok)
        \/ \E t \in QueryTypes, q \in Queries, raw \in QueryReactions :
               GetFeedQuery(c, t, q, raw)
        \/ \E s \in 1..MaxSubs, ok \in BOOLEAN : GetPost(c, s, ok)
        \/ \E r \in PageRoutes : GetPage(c, r)

Spec == Init /\ [][Next]_vars

-----------------------------------------------------------------------------
(* Posting and moderation: Ann posts and replies with every text *)

NextModeration ==
    \/ \E p \in {"pw", "zz"} : Login("c1", "a@x", p, TRUE)
    \/ \E t \in Texts, ok \in BOOLEAN : NewPost("c1", t, ok)
    \/ \E s \in 1..MaxSubs, t \in Texts, ok \in BOOLEAN : Reply("c1", s, t, ok)
    \/ \E ok \in BOOLEAN : GetFeed("c1", ok)

SpecModeration == Init /\ [][NextModeration]_vars

(* Reactions: Ann posts, Ann and Bob react and unreact *)

NextReact ==
    \/ Login("c1", "a@x", "pw", TRUE)
    \/ Login("c2", "b@x", "pw", TRUE)
    \/ NewPost("c1", "good", TRUE)
    \/ \E c \in Clients, s \in 1..MaxSubs, r \in ReactionIds : React(c, s, r, "", TRUE)
    \/ \E s \in {0, 1}, r \in {0, 1} : React("c2", s, r, "", TRUE)
    \/ \E ref \in Referrers, ok \in BOOLEAN : React("c2", 1, 1, ref, ok)
    \/ \E c \in Clients, s \in 1..MaxSubs : Unreact(c, s, "", TRUE)
    \/ Unreact("c2", 0, "", TRUE)
    \/ \E ref \in Referrers, ok \in BOOLEAN : Unreact("c2", 1, ref, ok)
    \/ GetFeed("c2", TRUE)

SpecReact == Init /\ [][NextReact]_vars

(* Deleting: Ann posts, replies and reacts; the second client is Bob or the
   manager; both try to delete *)

NextDelete ==
    \/ Login("c1", "a@x", "pw", TRUE)
    \/ \E e \in {"m@x", "b@x"} : Login("c2", e, "pw", TRUE)
    \/ NewPost("c1", "good", TRUE)
    \/ Reply("c1", 1, "good", TRUE)
    \/ React("c1", 1, 1, "", TRUE)
    \/ \E c \in Clients, s \in 1..MaxSubs : DeletePostLoad(c, s, TRUE)
    \/ DeletePostLoad("c1", 1, FALSE)
    \/ \E c \in Clients : DeletePostDel(c, TRUE)
    \/ DeletePostDel("c1", FALSE)
    \/ \E c \in Clients, r \in 1..MaxReplies : DeleteReplyLoad(c, r, TRUE)
    \/ DeleteReplyLoad("c1", 1, FALSE)
    \/ \E c \in Clients : DeleteReplyDel(c, TRUE)
    \/ DeleteReplyDel("c1", FALSE)
    \/ GetFeed("c2", TRUE)
    \/ \E s \in 1..MaxSubs : GetPost("c2", s, TRUE)

SpecDelete == Init /\ [][NextDelete]_vars

(* The gate: one client, with and without a session, requests every route *)

NextGate ==
    \/ Login("c1", "a@x", "pw", TRUE)
    \/ Logout("c1")
    \/ \E e \in {"a@x", "n@x"} : RegisterCheck("c1", "Ann", "Lee", e, "pw", TRUE)
    \/ RegisterInsert("c1", "s1", TRUE)
    \/ NewPost("c1", "good", TRUE)
    \/ Reply("c1", 1, "good", TRUE)
    \/ React("c1", 1, 1, "", TRUE)
    \/ Unreact("c1", 1, "", TRUE)
    \/ DeletePostLoad("c1", 1, TRUE)
    \/ DeletePostDel("c1", TRUE)
    \/ DeleteReplyLoad("c1", 1, TRUE)
    \/ DeleteReplyDel("c1", TRUE)
    \/ GetFeed("c1", TRUE)
    \/ GetPost("c1", 1, TRUE)
    \/ \E r \in PageRoutes : GetPage("c1", r)

SpecGate == Init /\ [][NextGate]_vars

(* Searching the feed: Ann and Bob post, Ann reacts, Bob searches *)

NextSearch ==
    \/ Login("c1", "a@x", "pw", TRUE)
    \/ Login("c2", "b@x", "pw", TRUE)
    \/ \E c \in Clients, t \in {"good", "meh"} : NewPost(c, t, TRUE)
    \/ \E s \in 1..MaxSubs, r \in ReactionIds : React("c1", s, r, "", TRUE)
    \/ \E t \in QueryTypes, q \in Queries : GetFeedQuery("c2", t, q, "")
    \/ \E t \in {"reaction", "content"}, q \in {"", "oo"}, raw \in QueryReactions :
          GetFeedQuery("c2", t, q, raw)

SpecSearch == Init /\ [][NextSearch]_vars

(* Failures: one client, with and without a login, meets every failure page *)

NextFailures ==
    \/ \E p \in {"pw", "zz"} : Login("c1", "a@x", p, TRUE)
    \/ Logout("c1")
    \/ \E f \in FirstNames : RegisterCheck("c1", f, "Lee", "a@x", "pw", TRUE)
    \/ \E t \in Texts, ok \in BOOLEAN : NewPost("c1", t, ok)
    \/ \E t \in {"good", "bad"} : Reply("c1", 1, t, TRUE)
    \/ \E ok \in BOOLEAN : GetFeed("c1", ok)
    \/ \E s \in 1..MaxSubs, ok \in BOOLEAN : GetPost("c1", s, ok)

SpecFailures == Init /\ [][NextFailures]_vars

(* Concurrent reactions: the two clients are two sessions of Ann, and their
   reactions are in flight together *)

NextReactRace ==
    \/ \E c \in Clients : Login(c, "a@x", "pw", TRUE)
    \/ NewPost("c1", "good", TRUE)
    \/ \E c \in Clients, r \in ReactionIds : ReactBegin(c, 1, r, "")
    \/ ReactBegin("c2", 2, 1, "/post/1")
    \/ \E c \in Clients : ReactStore(c, TRUE)
    \/ ReactStore("c2", FALSE)

SpecReactRace == Init /\ [][NextReactRace]_vars

(* Concurrent registrations: both clients register, with the same email or
   with different ones, and the store answers every statement *)

NextRegisterRace ==
    \/ \E c \in Clients, e \in {"a@x", "n@x", "q@x"} :
          RegisterCheck(c, "Ann", "Lee", e, "pw", TRUE)
    \/ \E c \in Clients : RegisterInsert(c, "s1", TRUE)
    \/ \E c \in Clients : Logout(c)
    \/ \E c \in Clients : GetPage(c, "newpostForm")

SpecRegisterRace == Init /\ [][NextRegisterRace]_vars

(* Replies and reactions in flight while their submission is deleted: Ann
   posts and deletes, Ann and Bob reply and react *)

NextDeleteRace ==
    \/ Login("c1", "a@x", "pw", TRUE)
    \/ Login("c2", "b@x", "pw", TRUE)
    \/ NewPost("c1", "good", TRUE)
    \/ \E c \in Clients, t \in {"good", "bad"} : ReplyBegin(c, 1, t)
    \/ \E c \in Clients : ReplyStore(c, TRUE)
    \/ \E c \in Clients : ReactBegin(c, 1, 1, "")
    \/ \E c \in Clients : ReactStore(c, TRUE)
    \/ \E s \in 1..MaxSubs : DeletePostLoad("c1", s, TRUE)
    \/ DeletePostDel("c1", TRUE)

SpecDeleteRace == Init /\ [][NextDeleteRace]_vars

(* Authors: Ann on one client, Bob or a newly registered user on the other,
   post and reply *)

NextAuthors ==
    \/ Login("c1", "a@x", "pw", TRUE)
    \/ Login("c2", "b@x", "pw", TRUE)
    \/ Logout("c2")
    \/ RegisterCheck("c2", "Ann", "Lee", "n@x", "pw", TRUE)
    \/ RegisterInsert("c2", "s1", TRUE)
    \/ \E c \in Clients : NewPost(c, "good", TRUE)
    \/ NewPost("c2", "", TRUE)
    \/ \E c \in Clients : Reply(c, 1, "good", TRUE)
    \/ Reply("c1", 1, "good", FALSE)

SpecAuthors == Init /\ [][NextAuthors]_vars

(* Logging in: both clients log in as Ann or Bob, log out, and fail to log
   in in every way, with and without a session *)

NextLogin ==
    \/ \E c \in Clients, e \in Emails, p \in Passwords, ok \in BOOLEAN : Login(c, e, p, ok)
    \/ Login("c2", "b@x", "pw", TRUE)
    \/ \E c \in Clients : Logout(c)
    \/ \E c \in Clients : GetFeed(c, TRUE)

SpecLogin == Init /\ [][NextLogin]_vars

(* The feed counts over every content of the tables: n submissions of Ann,
   and for each submission and each of Ann and Bob no reaction row, a row of
   a type, or a row without a type (0) *)

StoredSubs(n) ==
    {[subid |-> i, userid |-> 2, subtext |-> "good", subnegativestatus |-> FALSE,
      subdate |-> i] : i \in 1..n}

ReactionTables(n) ==
    {{[subid |-> k[1], userid |-> k[2], reactionid |-> f[k]]
         : k \in {x \in DOMAIN f : f[x] >= 0}}
       : f \in [(1..n) \X {2, 3} -> {0 - 1, 0} \cup ReactionIds]}

InitCounts ==
    /\ listing \in Listings
    /\ users = SeedUsers
    /\ \E n \in 0..MaxSubs :
          /\ submissions = StoredSubs(n)
          /\ subreactions \in ReactionTables(n)
          /\ nextSubId = n + 1
          /\ clock = n + 1
    /\ replies = {}
    /\ nextUserId = Cardinality(SeedUsers) + 1
    /\ nextReplyId = 1
    /\ session = [c \in Clients |-> NoSession]
    /\ pending = [c \in Clients |-> Idle]
    /\ last = NoRequest

NextCounts ==
    \/ Login("c1", "a@x", "pw", TRUE)
    \/ \E c \in Clients : GetFeed(c, TRUE)
    \/ GetFeed("c1", FALSE)

SpecCounts == InitCounts /\ [][NextCounts]_vars

(* Registration: two clients register, log in and log out *)

NextRegister ==
    \/ \E c \in Clients, f \in FirstNames, l \in LastNames, e \in Emails,
          p \in Passwords : RegisterCheck(c, f, l, e, p, TRUE)
    \/ RegisterCheck("c1", "Ann", "Lee", "n@x", "pw", FALSE)
    \/ \E c \in Clients, salt \in Salts, ok \in BOOLEAN : RegisterInsert(c, salt, ok)
    \/ \E c \in Clients, e \in Emails, p \in Passwords : Login(c, e, p, TRUE)
    \/ Login("c1", "a@x", "pw", FALSE)
    \/ \E c \in Clients : Logout(c)

SpecRegister == Init /\ [][NextRegister]_vars

-----------------------------------------------------------------------------
(* Claims *)

(* C1: every persisted submission and every persisted reply has a text whose
   moderation score is >= 0, after any sequence of POST /newpost and
   POST /reply/:id requests, in every listing *)
C1_NoNegativePersisted ==
    /\ \A p \in submissions : analyze(p.subtext) >= 0
    /\ \A r \in replies : analyze(r.replytext) >= 0

(* C6: a non-empty text with score >= 0 posted by a logged-in user, when the
   insert succeeds, adds exactly one submission row with that text, the
   poster as author, negative-status false and the store's timestamp, and the
   feed then lists that row first *)
C6_AcceptedPostTopsFeed ==
    [][\A c \in Clients, t \in Texts :
          (/\ session[c].isLoggedIn
           /\ ~IsEmptyText(t)
           /\ analyze(t) >= 0
           /\ NewPost(c, t, TRUE))
          => \E row \in submissions' :
                /\ row \notin submissions
                /\ submissions' = submissions \cup {row}
                /\ row.subtext = t
                /\ row.userid = session[c].user.userid
                /\ row.subnegativestatus = FALSE
                /\ row.subdate = clock
                /\ FeedSubs'[1].subid = row.subid
                /\ FeedSubs'[1].subtext = t
                /\ last'.resps = <<Redirect("/feed", 0)>>]_vars

(* C6 witness: a second accepted post was inserted and heads the feed above
   the older one *)
C6_Witness ==
    /\ last.route = "newpost"
    /\ last.ok
    /\ Cardinality(submissions) >= 2
    /\ FeedSubs[1].subid = last.id
    /\ analyze(FeedSubs[1].subtext) >= 0

(* C7: a text with score < 0 posted by a logged-in user persists no
   submission row, leaves the feed's submissions as they were, and is
   answered with the new-post form carrying an error message, in every
   listing *)
C7_NegativePostRejected ==
    [][\A c \in Clients, t \in Texts, ok \in BOOLEAN :
          (/\ session[c].isLoggedIn
           /\ analyze(t) < 0
           /\ NewPost(c, t, ok))
          => /\ submissions' = submissions
             /\ FeedSubs' = FeedSubs
             /\ Len(last'.resps) = 1
             /\ last'.resps[1].kind = "render"
             /\ last'.resps[1].to = "newPost"
             /\ last'.resps[1].msg # ""]_vars

(* the reaction rows of a (submission, user) pair *)
PairRows(rows, subid, userid) == {r \in rows : r.subid = subid /\ r.userid = userid}

(* C2: at most one reaction row exists per (submission, user) pair in every
   reachable state, and a reaction of a logged-in user that the store accepts
   leaves exactly one row for the pair, holding the type just sent, also when
   the pair held another type before *)
C2_OneReactionPerPair ==
    /\ [](\A p \in subreactions : Cardinality(PairRows(subreactions, p.subid, p.userid)) = 1)
    /\ [][\A c \in Clients, sid \in 1..MaxSubs, t2 \in ReactionIds, ref \in Referrers :
             (/\ session[c].isLoggedIn
              /\ last'.route = "react" /\ last'.c = c /\ last'.id = sid
              /\ React(c, sid, t2, ref, TRUE)
              /\ last'.ok)
             => PairRows(subreactions', sid, session[c].user.userid)
                  = {[subid |-> sid, userid |-> session[c].user.userid,
                      reactionid |-> t2]}]_vars

(* C2 witness: a user who held one type on a submission reacted with the
   other type, while another user also has a row on that submission *)
C2_Witness ==
    /\ last.route = "react"
    /\ last.ok
    /\ last.prev # 0
    /\ PrevReaction(subreactions, last.id, last.user) # last.prev
    /\ Cardinality({r \in subreactions : r.subid = last.id}) = 2

(* the sum of the counts of one submission's breakdown *)
RECURSIVE SumCounts(_)
SumCounts(byType) ==
    IF DOMAIN byType = {} THEN 0
    ELSE LET k == CHOOSE x \in DOMAIN byType : TRUE
         IN byType[k] + SumCounts([x \in (DOMAIN byType) \ {k} |-> byType[x]])

(* C8: in the feed page of the listings that report a breakdown, the total
   of every listed submission equals the sum of its breakdown counts and the
   number of its stored reaction rows, and a submission without reactions
   has an entry in neither map *)
C8_TotalsMatchBreakdown ==
    (last.route = "feed" /\ last.resps = <<Render("feed", "")>> /\ listing # "L2")
    => \A i \in 1..Len(last.page.submissions) :
          LET sid == last.page.submissions[i].subid
              stored == {r \in subreactions : r.subid = sid}
          IN IF stored = {}
             THEN /\ sid \notin DOMAIN last.page.reactionCounts
                  /\ sid \notin DOMAIN last.page.reactionBreakdown
             ELSE /\ sid \in DOMAIN last.page.reactionCounts
                  /\ sid \in DOMAIN last.page.reactionBreakdown
                  /\ last.page.reactionCounts[sid]
                       = SumCounts(last.page.reactionBreakdown[sid])
                  /\ last.page.reactionCounts[sid] = Cardinality(stored)

(* C8 witness: a feed page that lists a submission with reactions of two
   types and a submission with none *)
C8_Witness ==
    /\ last.route = "feed"
    /\ listing # "L2"
    /\ Len(last.page.submissions) = 2
    /\ \E sid \in DOMAIN last.page.reactionBreakdown :
          Cardinality(DOMAIN last.page.reactionBreakdown[sid]) = 2
    /\ \E i \in 1..2 : last.page.submissions[i].subid \notin DOMAIN last.page.reactionCounts

(* C9: POST /unreact by a logged-in user is answered with the redirect to the
   referrer (or /feed) whether or not the user holds a row; when the user
   holds none the reactions table is unchanged; and an unreact that directly
   follows a completed unreact of the same client on the same submission
   changes nothing *)
C9_UnreactNoOp ==
    [][\A c \in Clients, sid \in 0..MaxSubs, ref \in Referrers, ok \in BOOLEAN :
          (/\ session[c].isLoggedIn
           /\ last'.route = "unreact" /\ last'.c = c /\ last'.id = sid
           /\ Unreact(c, sid, ref, ok))
          => /\ last'.resps = <<RedirectBack(ref)>>
             /\ (PairRows(subreactions, sid, session[c].user.userid) = {}
                   => subreactions' = subreactions)
             /\ (last'.ok => PairRows(subreactions', sid, session[c].user.userid) = {})
             /\ ((last.route = "unreact" /\ last.ok /\ last.c = c /\ last.id = sid)
                   => subreactions' = subreactions)
             /\ UNCHANGED <<users, submissions, replies>>]_vars

(* C9 witness: the store ran the delete for a user who held no row on the
   submission while another user's row is there *)
C9_Witness ==
    /\ last.route = "unreact"
    /\ last.ok
    /\ last.prev = 0
    /\ \E r \in subreactions : r.subid = last.id /\ r.userid # last.user

(* the stored role of a user *)
IsManager(userid) == \E u \in users : u.userid = userid /\ u.manager = "true"

(* C3: a logged-in user who is neither the author of the target row nor a
   manager and asks to delete an existing submission or reply (the owner
   lookup answering) gets status 403 and changes no table; the routes remove
   a target row only for its author or a manager *)
C3_DeleteNeedsOwnerOrManager ==
    [][\A c \in Clients :
          LET me == session[c].user.userid IN
          /\ \A sid \in 1..MaxSubs :
                (/\ session[c].isLoggedIn
                 /\ last'.route = "deletePost" /\ last'.c = c
                 /\ \E p \in submissions : p.subid = sid /\ p.userid # me
                 /\ ~IsManager(me)
                 /\ DeletePostLoad(c, sid, TRUE))
                => /\ UNCHANGED tables
                   /\ pending' = pending
                   /\ last'.route = "deletePost"
                   /\ last'.resps[1].status = 403
          /\ \A rid \in 1..MaxReplies :
                (/\ session[c].isLoggedIn
                 /\ listing = "L3"
                 /\ last'.route = "deleteReply" /\ last'.c = c
                 /\ \E r \in replies : r.replyid = rid /\ r.userid # me
                 /\ ~IsManager(me)
                 /\ DeleteReplyLoad(c, rid, TRUE))
                => /\ UNCHANGED tables
                   /\ pending' = pending
                   /\ last'.route = "deleteReply"
                   /\ last'.resps[1].status = 403
          /\ \A ok \in BOOLEAN :
                (DeletePostDel(c, ok) \/ \E sid \in 1..MaxSubs : DeletePostLoad(c, sid, ok))
                => \A p \in submissions \ submissions' : p.userid = me \/ IsManager(me)
          /\ \A ok \in BOOLEAN :
                (DeleteReplyDel(c, ok) \/ \E rid \in 1..MaxReplies : DeleteReplyLoad(c, rid, ok))
                => \A r \in replies \ replies' : r.userid = me \/ IsManager(me)]_vars

(* C3 witness: a delete of a submission that carries a reply and a reaction
   was refused with 403 and the submission is still there *)
C3_Witness ==
    /\ last.route = "deletePost"
    /\ last.resps[1].status = 403
    /\ SubExists(last.id)
    /\ Dependents(last.id) >= 2

(* the submissions that were created and are gone: ids are handed out in
   order and only POST /deletePost removes a submission *)
DeletedSubs == {sid \in 1..(nextSubId - 1) : ~SubExists(sid)}

(* C4: once a submission is deleted the store holds no reply and no reaction
   of it, and the pages of GET /feed and GET /post/:id carry no reply, no
   reaction count and no breakdown entry for it *)
C4_DeleteCascades ==
    \A sid \in DeletedSubs :
       /\ \A r \in replies : r.subid # sid
       /\ \A r \in subreactions : r.subid # sid
       /\ \A c \in Clients :
             LET page == FeedPage(session[c]) IN
             /\ sid \notin SubIds(page.submissions)
             /\ sid \notin DOMAIN page.reactionCounts
             /\ sid \notin DOMAIN page.reactionBreakdown
       /\ PostPage(sid).replies = << >>
       /\ PostPage(sid).reactionCounts = 0
       /\ PostPage(sid).reactionBreakdown = EmptyObj
       /\ (last.route = "feed" =>
             /\ sid \notin SubIds(last.page.submissions)
             /\ sid \notin DOMAIN last.page.reactionCounts
             /\ sid \notin DOMAIN last.page.reactionBreakdown)
       /\ (last.route = "post" /\ last.id = sid => last.page = PostMissingPage)

(* C4 witness: an authorized delete removed a submission that carried at
   least a reply and a reaction *)
C4_Witness ==
    /\ last.route = "deletePost"
    /\ last.ok
    /\ last.prev >= 2
    /\ last.id \in DeletedSubs

(* the routes the claim calls PUBLIC *)
ClaimedPublic(route) ==
    route \in {"landing", "feed", "login", "loginForm", "register", "registerForm",
               "logout", "static", "post"}

(* C5: a request passes the gate to its route exactly when its path is
   PUBLIC or its session is logged in; a request to another path without a
   session is answered with the login view and an error message, and changes
   no table and no session *)
C5_GateDecides ==
    [][last' # last =>
          LET loggedIn == session[last'.c].isLoggedIn
              public == ClaimedPublic(last'.route)
          IN /\ last'.reached <=> (public \/ loggedIn)
             /\ (~public /\ ~loggedIn) =>
                   /\ Len(last'.resps) = 1
                   /\ last'.resps[1].kind = "render"
                   /\ last'.resps[1].to = "login"
                   /\ last'.resps[1].msg # ""
                   /\ UNCHANGED tables
                   /\ session' = session]_vars

(* C5 witness: after a logout, with a submission stored, a POST /react was
   stopped by the gate *)
C5_Witness ==
    /\ last.route = "react"
    /\ ~last.reached
    /\ last.resps = <<LoginWall>>
    /\ submissions # {}

(* C10: POST /register with an email that a stored user already has creates
   no user row, does not log the session in, and answers with exactly one
   response, the register form with 'Email already registered'; with a free
   email the insert adds one row and logs the session in as that user *)
C10_RegisterDuplicateOneResponse ==
    [][\A c \in Clients, f \in FirstNames, l \in LastNames, e \in Emails, p \in Passwords :
          /\ (/\ ~MissingField(f, l, e, p)
              /\ UserByEmail(e) # {}
              /\ RegisterCheck(c, f, l, e, p, TRUE))
             => /\ users' = users
                /\ session' = session
                /\ last'.resps = <<Render("register", "Email already registered")>>
          /\ (\E salt \in Salts : RegisterInsert(c, salt, TRUE) /\ last'.ok)
             => /\ \E row \in users' : /\ row \notin users
                                       /\ users' = users \cup {row}
                                       /\ row.useremail = pending[c].email
                                       /\ session'[c].user.userid = row.userid
                /\ session'[c].isLoggedIn]_vars

-----------------------------------------------------------------------------
(* Login failures *)

(* a stored user has this email and this password *)
Holds(email, pw) ==
    \E u \in users : /\ u.useremail = email
                     /\ u.userpassword.digest = <<u.userpassword.salt, pw>>

(* C11: a POST /login with a non-empty email and password that match no
   stored user is answered with the login view and the message 'Invalid
   login' and leaves the session as it was, whether the email belongs to no
   user or to a user with another password: the two failures cannot be told
   apart by the response *)
C11_LoginFailureGeneric ==
    [][\A c \in Clients, e \in Emails \ {""}, p \in Passwords \ {""} :
          (/\ last'.route = "login" /\ last'.c = c
           /\ ~Holds(e, p)
           /\ Login(c, e, p, TRUE))
          => /\ last'.resps = <<Render("login", "Invalid login")>>
             /\ session' = session
             /\ UNCHANGED tables]_vars

(* C11 witness: a login failed on the email of a user who registered with
   another password, in a store where an email of no user can be sent too *)
C11_Witness ==
    /\ last.route = "login"
    /\ ~last.ok
    /\ last.email = "n@x"
    /\ UserByEmail("n@x") # {}
    /\ last.resps = <<Render("login", "Invalid login")>>
    /\ \E e \in Emails \ {""} : UserByEmail(e) = {}

-----------------------------------------------------------------------------
(* The session profile *)

(* C12: a successful POST /login or POST /register leaves the session
   logged in with a profile whose id, names, email and manager flag are those
   of the stored user row, and the session of a client changes only by a
   successful login, registration or logout of that client *)
C12_SessionHoldsProfile ==
    [][\A c \in Clients :
          /\ (/\ last' # last
              /\ last'.c = c
              /\ last'.route \in {"login", "register"}
              /\ last'.ok)
             => /\ session'[c].isLoggedIn
                /\ \E u \in users' : /\ u.userid = last'.id
                                      /\ session'[c].user = Profile(u)
          /\ (session'[c] # session[c])
             => /\ last'.c = c
                /\ last'.route \in {"login", "register", "logout"}
                /\ last'.ok]_vars

-----------------------------------------------------------------------------
(* The response of POST /react *)

(* the redirect the claim expects: to the referring page, else to /feed *)
BackTo(ref) ==
    [kind |-> "redirect", status |-> 302, to |-> IF ref = "" THEN "/feed" ELSE ref,
     id |-> 0, msg |-> ""]

(* C13 as stated: every POST /react of a logged-in user, whatever its
   fields and whatever the store does, is answered with one redirect to the
   referring page, or to /feed without a referrer *)
C13_ReactAlwaysRedirects ==
    [][\A c \in Clients, sid \in 0..MaxSubs, rid \in {0} \cup ReactionIds,
         ref \in Referrers, ok \in BOOLEAN :
          (/\ session[c].isLoggedIn
           /\ last'.route = "react" /\ last'.c = c /\ last'.id = sid
           /\ React(c, sid, rid, ref, ok))
          => last'.resps = <<BackTo(ref)>>]_vars

(* C13 amended: a POST /react of a logged-in user that carries a subid and a
   reactionid is answered with that redirect whether the upsert succeeds or
   fails; a request that lacks one of the two is answered with status 400
   and a JSON error by the two listings of index.js, and with the same
   redirect by the third listing; in both cases no table changes *)
C13_ReactRedirectsOrRefuses ==
    [][\A c \in Clients, sid \in 0..MaxSubs, rid \in {0} \cup ReactionIds,
         ref \in Referrers, ok \in BOOLEAN :
          (/\ session[c].isLoggedIn
           /\ last'.route = "react" /\ last'.c = c /\ last'.id = sid
           /\ React(c, sid, rid, ref, ok))
          => IF sid # 0 /\ rid # 0
             THEN /\ last'.resps = <<BackTo(ref)>>
                  /\ (~last'.ok => UNCHANGED tables)
             ELSE /\ UNCHANGED tables
                  /\ IF listing = "L3"
                     THEN last'.resps = <<BackTo(ref)>>
                     ELSE /\ Len(last'.resps) = 1
                          /\ last'.resps[1].kind = "json"
                          /\ last'.resps[1].status = 400]_vars

(* C13 witness: the upsert of a logged-in user failed and the answer was the
   redirect to the referring page *)
C13_Witness ==
    /\ last.route = "react"
    /\ last.reached
    /\ last.user # 0
    /\ ~last.ok
    /\ last.id # 0
    /\ last.resps = <<BackTo("/post/1")>>

-----------------------------------------------------------------------------
(* One response per request *)

(* C14: every completed request was answered with exactly one response, no
   further render, send or redirect was attempted after it, and no rejection
   was left unhandled *)
C14_ExactlyOneResponse ==
    last.route # "none" => (Len(last.resps) = 1 /\ ~last.unhandled)

-----------------------------------------------------------------------------
(* Logout *)

(* C15: GET /logout on a logged-in session leaves the client without a
   login and answers with a redirect to /feed; while the client has no
   login, each of its requests to a PROTECTED path is answered with the
   login view and changes no table; and the client gets a login again only
   by a POST /login or POST /register that succeeds *)
C15_LogoutEndsAccess ==
    [][\A c \in Clients :
          /\ (session[c].isLoggedIn /\ last'.route = "logout" /\ Logout(c))
             => /\ ~session'[c].isLoggedIn
                /\ session'[c].user = NoUser
                /\ last'.resps = <<[kind |-> "redirect", status |-> 302, to |-> "/feed",
                                    id |-> 0, msg |-> ""]>>
          /\ (/\ ~session[c].isLoggedIn
              /\ last' # last
              /\ last'.c = c
              /\ ~ClaimedPublic(last'.route))
             => /\ Len(last'.resps) = 1
                /\ last'.resps[1].kind = "render"
                /\ last'.resps[1].to = "login"
                /\ ~last'.reached
                /\ UNCHANGED tables
                /\ ~session'[c].isLoggedIn
          /\ (~session[c].isLoggedIn /\ session'[c].isLoggedIn)
             => /\ last'.c = c
                /\ last'.route \in {"login", "register"}
                /\ last'.ok]_vars

(* C15 witness: a client that registered and logged out asked to delete a
   stored submission and got the login view *)
C15_Witness ==
    /\ users # SeedUsers
    /\ ~session["c1"].isLoggedIn
    /\ \E p \in submissions : p.subid = 1
    /\ last.route = "deletePost"
    /\ last.c = "c1"
    /\ ~last.reached
    /\ last.resps = <<LoginWall>>

-----------------------------------------------------------------------------
(* The viewer's reactions in the feed *)

(* C16: the myReactions map of a rendered feed is empty for a viewer
   without a login; for a logged-in viewer its keys are exactly the listed
   submissions on which that viewer has a stored reaction, and each value is
   the type of the viewer's own row *)
C16_MyReactionsAreTheViewers ==
    (last.route = "feed" /\ last.reached /\ last.resps[1].msg = "")
    => LET my == last.page.myReactions
           listed == SubIds(last.page.submissions)
       IN IF last.user = 0
          THEN my = EmptyObj
          ELSE /\ DOMAIN my = {sid \in listed :
                                 \E r \in subreactions :
                                    r.subid = sid /\ r.userid = last.user}
               /\ \A sid \in DOMAIN my :
                     [subid |-> sid, userid |-> last.user, reactionid |-> my[sid]]
                        \in subreactions

(* C16 witness: a logged-in viewer got a feed of two submissions, holding a
   reaction on one of them, while another user reacted with another type on
   both *)
C16_Witness ==
    /\ last.route = "feed"
    /\ last.user # 0
    /\ Len(last.page.submissions) = 2
    /\ Cardinality(DOMAIN last.page.myReactions) = 1
    /\ \E sid \in DOMAIN last.page.myReactions :
          \E r \in subreactions : /\ r.subid = sid
                                  /\ r.userid # last.user
                                  /\ r.reactionid # last.page.myReactions[sid]
    /\ \E r \in subreactions : r.subid \notin DOMAIN last.page.myReactions

(* C16 second case: a viewer without a login got a feed whose submissions
   carry reactions *)
C16_AnonymousSeen ==
    /\ last.route = "feed"
    /\ last.user = 0
    /\ subreactions # {}

-----------------------------------------------------------------------------
(* The feed filters *)

(* q occurs in text, letter case aside *)
Contains(text, q) ==
    LET t == LowerAll(Chars(text))
        w == LowerAll(Chars(q))
    IN \E i \in 1..(Len(t) + 1) :
          i + Len(w) - 1 <= Len(t) /\ SubSeq(t, i, i + Len(w) - 1) = w

(* the submissions the claim says a query keeps *)
ClaimedKept(row, type, q, raw) ==
    LET mode == IF type = "" THEN "content" ELSE type
        empty == trim(q) = ""
    IN /\ (mode = "content" /\ ~empty) => Contains(row.subtext, q)
       /\ (mode = "user" /\ ~empty)
             => (Contains(row.userfirstname, q) \/ Contains(row.userlastname, q))
       /\ (mode = "reaction" /\ raw \in {"1", "2"})
             => \E r \in subreactions :
                   r.subid = row.subid /\ r.reactionid = ParseInt(raw).n

(* C17: the feed of a query lists exactly the submissions its one filter
   keeps: by text for 'content' (also when no type is given), by author name
   for 'user', by reaction type for 'reaction', and every submission for an
   empty query, a missing reaction type or an unknown type *)
C17_FeedFilters ==
    [][\A c \in Clients, type \in QueryTypes, q \in Queries, raw \in QueryReactions :
          (/\ last'.route = "feed" /\ last'.c = c
           /\ GetFeedQuery(c, type, q, raw))
          => SubIds(last'.page.submissions)
               = {row.subid : row \in {x \in {JoinAuthor(p) : p \in submissions} :
                                         ClaimedKept(x, type, q, raw)}}]_vars

-----------------------------------------------------------------------------
(* Empty texts *)

(* C18: for an empty or blank text POST /newpost of a logged-in user stores
   no submission and answers with the form and the message that the content
   cannot be empty, not with the moderation message; POST /reply/:id stores
   no reply and answers with the plain redirect to the post view, without an
   error indicator *)
C18_EmptyTextFirst ==
    [][\A c \in Clients, t \in {"", " "}, ok \in BOOLEAN :
          /\ (/\ session[c].isLoggedIn
              /\ last'.route = "newpost" /\ last'.c = c
              /\ NewPost(c, t, ok))
             => /\ UNCHANGED tables
                /\ last'.resps = <<[kind |-> "render", status |-> 200, to |-> "newPost",
                                    id |-> 0, msg |-> "Post content cannot be empty."]>>
                /\ last'.resps[1].msg # PostRejectMsg(listing)
          /\ \A sid \in 1..MaxSubs :
                (/\ session[c].isLoggedIn
                 /\ last'.route = "reply" /\ last'.c = c /\ last'.id = sid
                 /\ Reply(c, sid, t, ok))
                => /\ UNCHANGED tables
                   /\ last'.resps = <<[kind |-> "redirect", status |-> 302,
                                       to |-> "/post/:id", id |-> sid, msg |-> ""]>>]_vars

(* C18 witness: with a submission stored, a logged-in user sent a new post
   that was refused as empty *)
C18_Witness ==
    /\ last.route = "newpost"
    /\ last.user # 0
    /\ last.resps[1].msg = "Post content cannot be empty."
    /\ submissions # {}
    /\ nextSubId <= MaxSubs

-----------------------------------------------------------------------------
(* A failed insert *)

(* C19: when the store fails the insert of a submission that passed the
   checks, POST /newpost stores no row and answers with one render of the
   new-post form that carries an error message, not with a redirect *)
C19_FailedInsertRendersForm ==
    [][\A c \in Clients, t \in Texts :
          (/\ session[c].isLoggedIn
           /\ trim(t) # ""
           /\ analyze(t) >= 0
           /\ last'.route = "newpost" /\ last'.c = c
           /\ NewPost(c, t, FALSE))
          => /\ UNCHANGED tables
             /\ Len(last'.resps) = 1
             /\ last'.resps[1].kind = "render"
             /\ last'.resps[1].to = "newPost"
             /\ last'.resps[1].msg # ""
             /\ last'.resps[1].msg # "Post content cannot be empty."]_vars

(* C19 witness: after one submission was stored, the insert of the next
   accepted one failed and the form came back with the error *)
C19_Witness ==
    /\ last.route = "newpost"
    /\ last.reached
    /\ ~last.ok
    /\ last.resps = <<Render("newPost", PostErrorMsg(listing))>>
    /\ Cardinality(submissions) = 1
    /\ nextSubId <= MaxSubs

-----------------------------------------------------------------------------
(* The viewer of a failure page *)

(* the last request reached its handler and was answered with a page that
   carries an error message *)
FailurePage ==
    /\ last.route # "none"
    /\ last.reached
    /\ last.resps[1].kind = "render"
    /\ last.resps[1].msg # ""

(* C20 as stated: every page rendered on a failure is given the profile of
   the request's session as current viewer *)
C20_FailurePagesKeepViewer ==
    FailurePage => (last.viewer.given /\ last.viewer.user = session[last.c].user)

(* C20 amended: a feed, post or new-post page rendered on a failure is
   given the profile of the request's session as current viewer, the profile
   of the logged-in user or none for an anonymous viewer; the login and
   register pages rendered on a failed login or registration are given the
   error message only *)
C20_FeedPostFormKeepViewer ==
    FailurePage =>
       IF last.resps[1].to \in {"login", "register"}
       THEN ~last.viewer.given
       ELSE /\ last.resps[1].to \in {"feed", "post", "newPost"}
            /\ last.viewer.given
            /\ last.viewer.user = session[last.c].user
            /\ last.viewer.user.userid = last.user
            /\ (session[last.c].isLoggedIn
                  => \E u \in users : last.viewer.user = Profile(u))

(* C20 witness: a logged-in viewer asked for a post that is not there and
   the page came with the viewer's profile *)
C20_Witness ==
    /\ FailurePage
    /\ last.route = "post"
    /\ last.resps[1].msg = "Post not found"
    /\ last.user # 0
    /\ last.viewer.user.userid = last.user
    /\ submissions # {}

(* C20 second case: an anonymous viewer got the feed's failure page *)
C20_AnonymousSeen ==
    /\ FailurePage
    /\ last.route = "feed"
    /\ last.user = 0
    /\ last.viewer = [given |-> TRUE, user |-> NoUser]

-----------------------------------------------------------------------------
(* Concurrent requests *)

(* C21: when two POST /react requests of the same user on the same submission
   are in flight together, no state holds two rows for a (submission, user)
   pair, and each upsert that reaches the store while the submission exists
   succeeds (no uniqueness failure), is answered with the redirect to the
   referrer or /feed, and leaves exactly one row for the pair, holding the
   type of the request whose statement ran last: one of the two types sent *)
C21_ConcurrentReactsOneRow ==
    /\ [](\A p \in subreactions, q \in subreactions :
             (p.subid = q.subid /\ p.userid = q.userid) => p = q)
    /\ [][\A c \in Clients :
             (/\ pending[c].route = "react"
              /\ last'.c = c
              /\ SubExists(pending[c].subid)
              /\ ReactStore(c, TRUE))
             => /\ last'.ok
                /\ last'.resps = <<BackTo(pending[c].ref)>>
                /\ PairRows(subreactions', pending[c].subid, pending[c].userid)
                     = {[subid |-> pending[c].subid, userid |-> pending[c].userid,
                         reactionid |-> pending[c].reactionid]}
                /\ \A r \in subreactions' :
                      (r.subid # pending[c].subid \/ r.userid # pending[c].userid)
                         => r \in subreactions]_vars

(* C21 witness: a reaction arrived while the other session's reaction was in
   flight, the other one stored its type first, and this one then replaced
   it: both requests are done and the pair holds one row *)
C21_Witness ==
    /\ last.route = "react"
    /\ last.ok
    /\ last.during # {}
    /\ last.prev # 0
    /\ \A c \in Clients : IsIdle(c) /\ session[c].user.userid = last.user
    /\ PairRows(subreactions, last.id, last.user)
         = {[subid |-> last.id, userid |-> last.user,
             reactionid |-> IF last.prev = 1 THEN 2 ELSE 1]}

(* C22: no state holds two user rows with the same email, also when two
   POST /register requests for one email both pass the uniqueness check
   before either inserts; the request whose insert the store refuses adds no
   user, leaves its session as it was (an anonymous session stays anonymous,
   and no session is logged in as the user of that email), and is answered
   with the register form carrying 'Registration error' *)
C22_RegisterRaceOneRow ==
    /\ [](\A u \in users, v \in users : u.useremail = v.useremail => u = v)
    /\ [][\A c \in Clients, salt \in Salts :
             (/\ pending[c].route = "register"
              /\ last'.c = c
              /\ UserByEmail(pending[c].email) # {}
              /\ RegisterInsert(c, salt, TRUE))
             => /\ users' = users
                /\ session' = session
                /\ (~session[c].isLoggedIn => ~session'[c].isLoggedIn)
                /\ session'[c].user.useremail # pending[c].email
                /\ last'.resps = <<Render("register", "Registration error")>>]_vars

(* C22 witness: both clients passed the check for the same email, one was
   inserted and logged in, the other's insert was refused *)
C22_Witness ==
    /\ last.route = "register"
    /\ last.reached
    /\ ~last.ok
    /\ last.resps = <<Render("register", "Registration error")>>
    /\ ~session[last.c].isLoggedIn
    /\ \E d \in Clients \ {last.c} :
          /\ session[d].isLoggedIn
          /\ session[d].user.userid > Cardinality(SeedUsers)
          /\ Cardinality(UserByEmail(session[d].user.useremail)) = 1

-----------------------------------------------------------------------------
(* Frame conditions *)

(* C23: POST /react and POST /unreact of a client create, overwrite or delete
   only the reaction row keyed by the submission id sent and the user of the
   client's session: every row of another user and every row on another
   submission is the same before and after, for every body (submission id
   and reaction type present or missing), referrer and store outcome *)
C23_ReactTouchesOwnRowOnly ==
    [][\A c \in Clients, sid \in 0..MaxSubs :
          (/\ last'.c = c /\ last'.id = sid
           /\ \/ /\ last'.route = "react"
                 /\ \E rid \in {0} \cup ReactionIds, ref \in Referrers, ok \in BOOLEAN :
                       React(c, sid, rid, ref, ok)
              \/ /\ last'.route = "unreact"
                 /\ \E ref \in Referrers, ok \in BOOLEAN : Unreact(c, sid, ref, ok))
          => \A r \in subreactions \cup subreactions' :
                (r.subid # sid \/ r.userid # session[c].user.userid)
                   => (r \in subreactions /\ r \in subreactions')]_vars

(* C23 witness: a user removed the own reaction on a submission that holds
   another user's reaction, while holding a reaction on another submission *)
C23_Witness ==
    /\ last.route = "unreact"
    /\ last.ok
    /\ last.prev # 0
    /\ PairRows(subreactions, last.id, last.user) = {}
    /\ \E r \in subreactions : r.subid = last.id /\ r.userid # last.user
    /\ \E r \in subreactions : r.subid # last.id /\ r.userid = last.user

(* C24: in every state every reply and every reaction references a stored
   submission, also when a reply or a reaction on a submission is in flight
   while an authorized delete of that submission runs: an insert that
   reaches the store after the submission is gone persists nothing, and its
   request is answered with a redirect *)
C24_NoOrphans ==
    /\ [](/\ \A r \in replies : SubExists(r.subid)
          /\ \A r \in subreactions : SubExists(r.subid))
    /\ [][\A c \in Clients :
             /\ (/\ pending[c].route = "reply"
                 /\ ~SubExists(pending[c].subid)
                 /\ ReplyStore(c, TRUE))
                => /\ replies' = replies
                   /\ Len(last'.resps) = 1
                   /\ last'.resps[1].kind = "redirect"
             /\ (/\ pending[c].route = "react"
                 /\ ~SubExists(pending[c].subid)
                 /\ ReactStore(c, TRUE))
                => /\ subreactions' = subreactions
                   /\ Len(last'.resps) = 1
                   /\ last'.resps[1].kind = "redirect"]_vars

(* C24 witness: a reply arrived while the delete of its submission was in
   flight, the delete ran first, and the reply's insert then reached the
   store: nothing was persisted and the request was redirected *)
C24_Witness ==
    /\ last.route = "reply"
    /\ last.reached
    /\ ~last.ok
    /\ last.during # {}
    /\ last.id < nextSubId
    /\ ~SubExists(last.id)
    /\ replies = {}
    /\ last.resps = <<Redirect("/post/:id", last.id)>>

-----------------------------------------------------------------------------
(* Authorship *)

(* C25: every submission row and every reply row that a step adds has as
   author the user of the session that sent the creating request, that
   session is logged in, and the author is a stored user; a row once stored
   keeps its author *)
C25_AuthorIsSessionUser ==
    /\ [](/\ \A p \in submissions : \E u \in users : u.userid = p.userid
          /\ \A r \in replies : \E u \in users : u.userid = r.userid)
    /\ [][/\ \A row \in submissions' \ submissions :
                /\ last'.route = "newpost"
                /\ session[last'.c].isLoggedIn
                /\ row.userid = session[last'.c].user.userid
                /\ row.subid = last'.id
                /\ Cardinality(submissions' \ submissions) = 1
          /\ \A row \in replies' \ replies :
                /\ last'.route = "reply"
                /\ session[last'.c].isLoggedIn
                /\ row.userid = session[last'.c].user.userid
                /\ row.subid = last'.id
                /\ Cardinality(replies' \ replies) = 1]_vars

(* C25 witness: submissions of two authors are stored, and a user replied on
   a submission of the other one *)
C25_Witness ==
    /\ last.route = "reply"
    /\ last.ok
    /\ \E p \in submissions, q \in submissions : p.userid # q.userid
    /\ \E r \in replies, p \in submissions :
          /\ r.subid = p.subid
          /\ r.subid = last.id
          /\ r.userid = last.user
          /\ p.userid # r.userid

(* C26: a POST /login that fails, by a wrong password, an unknown email, a
   missing field or a storage error, leaves every session as it was: a
   session logged in as a user is still logged in as that user, an anonymous
   one stays anonymous; the request is answered with the login form *)
C26_FailedLoginKeepsSession ==
    [][\A c \in Clients, e \in Emails, p \in Passwords, ok \in BOOLEAN :
          (/\ last'.route = "login" /\ last'.c = c
           /\ (~ok \/ e = "" \/ p = "" \/ ~Holds(e, p))
           /\ Login(c, e, p, ok))
          => /\ session' = session
             /\ session'[c].isLoggedIn = session[c].isLoggedIn
             /\ session'[c].user = session[c].user
             /\ last'.resps[1].kind = "render"
             /\ last'.resps[1].to = "login"]_vars

(* C26 witness: a client logged in as a user sent a login with a wrong
   password and is still logged in as that user *)
C26_Witness ==
    /\ last.route = "login"
    /\ last.reached
    /\ ~last.ok
    /\ last.resps = <<Render("login", "Invalid login")>>
    /\ last.email # ""
    /\ last.user # 0
    /\ session[last.c].isLoggedIn
    /\ session[last.c].user.userid = last.user

-----------------------------------------------------------------------------
(* The two ways of counting reactions *)

(* C27: for every content of the reactions table in which every row has a
   reaction type, the map of per-submission counts of the second listing
   (one count grouped by submission) and the map of totals of the first and
   third listings (sum of the counts grouped by submission and type) are the
   same function over the listed submissions: same keys, same values; and
   the feed page of either listing carries that map *)
C27_CountsEqualTotals ==
    (\A r \in subreactions : r.reactionid # 0)
    => /\ Counts(CountsRows(SubIds(FeedSubs))) = Totals(BreakdownRows(SubIds(FeedSubs)))
       /\ (last.route = "feed" /\ last.resps = <<Render("feed", "")>>)
             => /\ last.page.reactionCounts = Counts(CountsRows(SubIds(FeedSubs)))
                /\ last.page.reactionCounts = Totals(BreakdownRows(SubIds(FeedSubs)))
                /\ DOMAIN last.page.reactionCounts
                      = {r.subid : r \in subreactions}

(* C27 witness: a feed page over a table where one submission holds two
   reactions of different types, another holds two of one type and a third
   listed submission, if any, is free to hold none *)
C27_Witness ==
    /\ last.route = "feed"
    /\ last.resps = <<Render("feed", "")>>
    /\ \A r \in subreactions : r.reactionid # 0
    /\ Len(last.page.submissions) >= 2
    /\ \E s \in DOMAIN last.page.reactionCounts :
          /\ last.page.reactionCounts[s] = 2
          /\ Cardinality({r.reactionid : r \in {x \in subreactions : x.subid = s}}) = 2
    /\ \E s \in DOMAIN last.page.reactionCounts :
          /\ last.page.reactionCounts[s] = 2
          /\ Cardinality({r.reactionid : r \in {x \in subreactions : x.subid = s}}) = 1

====
